---- MODULE Spec2Model ----
(***************************************************************************)
(* State-machine model of js/script.js: the GitHub statistics pipeline     *)
(* (GitHubStats: cache lookup, remote fetch, cache write, DOM update,      *)
(* count-up animation, fallback) together with the values it exchanges     *)
(* with localStorage, the network and the document.                        *)
(*                                                                         *)
(* JavaScript runs each synchronous segment to completion.  The variable   *)
(* `running` names the provider whose synchronous segment is executing;    *)
(* while it is set only that provider steps.  Segments end at the two      *)
(* awaits of fetchFromAPI (the fetch and response.json()).                 *)
(*                                                                         *)
(* Specifications:                                                         *)
(*   Spec       the shipped build (CONFIG.DEBUG = false): page loads with  *)
(*              the housekeeping sweep, the statistics pipeline, frames,   *)
(*              scrolling and the clock; only the stats key is populated.  *)
(*   SweepSpec  the same steps over a storage that also holds another      *)
(*              'die_' key and a key of another application.               *)
(*   LiveSpec   a first visit and its reloads, with the fairness of the    *)
(*              event loop; the clock and the viewport rest.               *)
(*   DebugSpec  the development build (CONFIG.DEBUG = true), where the     *)
(*              console can call window.DIE.refreshStats().                *)
(*   NavSpec    the NavbarScroll component with its debounced handler.     *)
(*   FormatSpec Utils.formatNumber applied to a range of integers.         *)
(***************************************************************************)
EXTENDS Integers, Sequences, FiniteSets, TLC

\* ------------------------------------------------------------------ bounds
MaxLoads == 2         \* page loads (the first visit and reloads) in one behaviour
MaxTicks == 1         \* clock advances in one behaviour
MaxPipelines == 3     \* fetch pipelines one page can hold
MaxNavTime == 25      \* milliseconds the navbar is watched for
MaxFormatted == 2600  \* largest integer handed to formatNumber

\* --------------------------------------------------------- program constants
CACHE_KEY == "die_github_stats"
CACHE_DURATION == 30 * 60 * 1000
AnimDuration == 1500
DebounceWait == 10
ScrollThreshold == 50
MaxCacheAge == 24 * 60 * 60 * 1000

Inst == 1..MaxPipelines

\* ------------------------------------------------------------ JavaScript values
\* A JavaScript value as the pipeline sees it: a number, NaN, a (non-numeric)
\* string, null or undefined.  v is the number; 0 for the other kinds.
Num(n) == [t |-> "num", v |-> n]
Undef == [t |-> "undef", v |-> 0]
Null == [t |-> "null", v |-> 0]
NaN == [t |-> "nan", v |-> 0]
Str == [t |-> "str", v |-> 0]

\* A value inside a JSON text: a number, a string, null, or no member at all.
JNum(n) == [t |-> "num", v |-> n]
JNull == [t |-> "null", v |-> 0]
JStr == [t |-> "str", v |-> 0]
JMissing == [t |-> "missing", v |-> 0]

\* JSON.stringify of one object member: a member whose value is undefined is
\* left out, NaN is written as null.
StringifyValue(x) ==
    CASE x.t = "undef" -> JMissing
      [] x.t = "nan" -> JNull
      [] x.t = "null" -> JNull
      [] x.t = "str" -> JStr
      [] OTHER -> JNum(x.v)

\* Reading a member of a JSON.parse result: an absent member reads as undefined.
ParseValue(j) ==
    CASE j.t = "missing" -> Undef
      [] j.t = "null" -> Null
      [] j.t = "str" -> Str
      [] OTHER -> Num(j.v)

\* ToNumber, as applied by the binary minus of `now - parsed.timestamp`.
ToNumber(x) ==
    CASE x.t = "num" -> Num(x.v)
      [] x.t = "null" -> Num(0)
      [] OTHER -> NaN

\* now - x for a numeric now.
Minus(n, x) ==
    IF ToNumber(x).t = "num" THEN Num(n - ToNumber(x).v) ELSE NaN

\* x <= n in place of x < n.
LessThan_OrEqual(x, n) == x.t = "num" /\ x.v <= n

\* x < n for a numeric n; every comparison with NaN is false.
LessThan(x, n) == x.t = "num" /\ x.v < n

\* x > n for a numeric n; every comparison with NaN is false.
GreaterThan(x, n) == x.t = "num" /\ x.v > n

\* ------------------------------------------------------------ snapshots
\* this.stats: null, undefined, a truthy non-object, or an object with the four
\* fields (each any JavaScript value).
Snapshot(k, a, b, c, d) ==
    [k |-> k, stars |-> a, forks |-> b, watchers |-> c, openIssues |-> d]
NullStats == Snapshot("null", Undef, Undef, Undef, Undef)
UndefStats == Snapshot("undef", Undef, Undef, Undef, Undef)
PrimStats == Snapshot("prim", Undef, Undef, Undef, Undef)
Obj(a, b, c, d) == Snapshot("obj", a, b, c, d)
NumStats(a, b, c, d) == Obj(Num(a), Num(b), Num(c), Num(d))

\* The fallback with two digits transposed.
FallbackStats_Typo == NumStats(10200, 897, 168, 0)

FallbackStats == NumStats(10200, 879, 168, 0)

\* The `data` member of a stored record, as JSON text.
JData(k, a, b, c, d) ==
    [k |-> k, stars |-> a, forks |-> b, watchers |-> c, openIssues |-> d]
JDataMissing == JData("missing", JMissing, JMissing, JMissing, JMissing)
JDataNull == JData("null", JMissing, JMissing, JMissing, JMissing)
JDataPrim == JData("prim", JMissing, JMissing, JMissing, JMissing)
JNumData(a, b, c, d) == JData("obj", JNum(a), JNum(b), JNum(c), JNum(d))

\* A writer that stores the watcher count under openIssues and vice versa.
StringifyData_Swapped(s) ==
    CASE s.k = "undef" -> JDataMissing
      [] s.k = "null" -> JDataNull
      [] s.k = "prim" -> JDataPrim
      [] OTHER -> JData("obj", StringifyValue(s.stars), StringifyValue(s.forks),
                        StringifyValue(s.openIssues), StringifyValue(s.watchers))

StringifyData(s) ==
    CASE s.k = "undef" -> JDataMissing
      [] s.k = "null" -> JDataNull
      [] s.k = "prim" -> JDataPrim
      [] OTHER -> JData("obj", StringifyValue(s.stars), StringifyValue(s.forks),
                        StringifyValue(s.watchers), StringifyValue(s.openIssues))

\* A reader that takes the fork count for the star count.
ParseData_ForksAsStars(j) ==
    CASE j.k = "missing" -> UndefStats
      [] j.k = "null" -> NullStats
      [] j.k = "prim" -> PrimStats
      [] OTHER -> Obj(ParseValue(j.forks), ParseValue(j.forks),
                      ParseValue(j.watchers), ParseValue(j.openIssues))

ParseData(j) ==
    CASE j.k = "missing" -> UndefStats
      [] j.k = "null" -> NullStats
      [] j.k = "prim" -> PrimStats
      [] OTHER -> Obj(ParseValue(j.stars), ParseValue(j.forks),
                      ParseValue(j.watchers), ParseValue(j.openIssues))

\* ------------------------------------------------------------ storage texts
\* What localStorage holds under one key: nothing, the empty string, a string
\* that is not JSON, the JSON text null, a JSON primitive, or a JSON object
\* with optional members data and timestamp.
Text(k, ts, data) == [k |-> k, ts |-> ts, data |-> data]
Absent == Text("absent", JMissing, JDataMissing)
EmptyText == Text("empty", JMissing, JDataMissing)
Garbage == Text("garbage", JMissing, JDataMissing)
NullText == Text("null", JMissing, JDataMissing)
PrimText == Text("prim", JMissing, JDataMissing)
RecordText(ts, data) == Text("obj", ts, data)

\* JSON.stringify({data: stats, timestamp: t})
StringifyRecord(stats, t) == RecordText(StringifyValue(Num(t)), StringifyData(stats))

\* ------------------------------------------------------------ display texts
\* textContent of a slot: the page's placeholder, a decimal integer, the
\* abbreviated form d.dk (v counts tenths of a thousand), "NaN", or some
\* other string.
InitText == [k |-> "init", v |-> 0]
IntText(n) == [k |-> "int", v |-> n]
KText(tenths) == [k |-> "k", v |-> tenths]
NaNText == [k |-> "nan", v |-> 0]
StrText == [k |-> "str", v |-> 0]

RECURSIVE Pow2Mod1000(_)
Pow2Mod1000(e) ==
    IF e = 0 THEN 1
    ELSE LET h == Pow2Mod1000(e \div 2)
         IN  (h * h * (IF e % 2 = 1 THEN 2 ELSE 1)) % 1000

\* The e with 2^52 <= (n / 1000) * 2^e < 2^53: the scaling of the significand
\* of the double nearest to n / 1000.
RECURSIVE Log2Floor(_)
Log2Floor(m) == IF m < 2 THEN 0 ELSE 1 + Log2Floor(m \div 2)
SignificandShift(n) == 52 - Log2Floor(n \div 1000)

\* (n / 1000).toFixed(1) in tenths, for an integer n >= 1000.  toFixed rounds
\* the double nearest to n / 1000, so a decimal tie (n % 100 = 50) goes the way
\* the division's own rounding error points; an exactly representable tie
\* (n a multiple of 250) takes the larger candidate.
\* A toFixed that cuts the further digits off.
ToFixed1_Truncating(n) == n \div 100

ToFixed1(n) ==
    LET base == n \div 100
        rem == n % 100
        r == ((n % 1000) * Pow2Mod1000(SignificandShift(n))) % 1000
    IN  IF rem < 50 THEN base
        ELSE IF rem > 50 THEN base + 1
        ELSE IF n % 250 = 0 THEN base + 1
        ELSE IF r > 500 THEN base + 1
        ELSE base

Threw == [threw |-> TRUE, text |-> InitText]
Returned(text) == [threw |-> FALSE, text |-> text]

\* x.toString(): a TypeError for undefined and null.
ToStringJS(x) ==
    CASE x.t = "undef" -> Threw
      [] x.t = "null" -> Threw
      [] x.t = "nan" -> Returned(NaNText)
      [] x.t = "str" -> Returned(StrText)
      [] OTHER -> Returned(IntText(x.v))

\* Utils.formatNumber
formatNumber(num) ==
    IF num.t = "num" /\ num.v >= 1000
    THEN Returned(KText(ToFixed1(num.v)))
    ELSE ToStringJS(num)

\* ------------------------------------------------------------ document
HeroSlots == {"github-stars", "github-forks"}
DetailedSlots == {"detailed-stars", "detailed-forks", "detailed-watchers"}
Slots == HeroSlots \cup DetailedSlots \cup {"detailed-issues"}

\* The state a render works on: the slots' texts, the scheduled animation
\* callbacks, and whether a statement has thrown.
RenderState(dom, anims, threw) == [dom |-> dom, anims |-> anims, threw |-> threw]

\* GitHubStats.updateElement
updateElement(dom, elems, id, value) ==
    IF id \in elems THEN [dom EXCEPT ![id] = value] ELSE dom

\* GitHubStats.isElementInViewport: the bounding-rectangle test, abstracted to
\* the set of slots that currently lie inside the viewport.
isElementInViewport(view, el) == el \in view

\* GitHubStats.animateNumber, up to its requestAnimationFrame(animate): the
\* callback is appended to the frame's callback list with its start time.
animateNumber(anims, elems, id, targetValue, t) ==
    IF id \notin elems THEN anims
    ELSE Append(anims, [slot |-> id, target |-> targetValue, start |-> t])

\* this.updateElement(id, Utils.formatNumber(x)): the argument is evaluated
\* first, so a throwing formatNumber leaves the slot alone.
WriteFormatted(r, elems, id, x) ==
    IF r.threw THEN r
    ELSE IF formatNumber(x).threw THEN [r EXCEPT !.threw = TRUE]
    ELSE [r EXCEPT !.dom = updateElement(r.dom, elems, id, formatNumber(x).text)]

\* A render that abbreviates the open-issue count like the other counts.
WriteLiteral_Abbreviated(r, elems, id, x) ==
    IF r.threw THEN r
    ELSE IF formatNumber(x).threw THEN [r EXCEPT !.threw = TRUE]
    ELSE [r EXCEPT !.dom = updateElement(r.dom, elems, id, formatNumber(x).text)]

\* this.updateElement(id, x.toString())
WriteLiteral(r, elems, id, x) ==
    IF r.threw THEN r
    ELSE IF ToStringJS(x).threw THEN [r EXCEPT !.threw = TRUE]
    ELSE [r EXCEPT !.dom = updateElement(r.dom, elems, id, ToStringJS(x).text)]

StartAnimation(r, elems, id, x, t) ==
    IF r.threw THEN r
    ELSE [r EXCEPT !.anims = animateNumber(r.anims, elems, id, x, t)]

\* GitHubStats.updateDOM, statement by statement.
updateDOM(stats, dom, anims, elems, view, t) ==
    LET r0 == RenderState(dom, anims, FALSE)
        r1 == WriteFormatted(r0, elems, "github-stars", stats.stars)
        r2 == WriteFormatted(r1, elems, "github-forks", stats.forks)
        animated == "detailed-stars" \in elems
                    /\ isElementInViewport(view, "detailed-stars")
        a1 == StartAnimation(r2, elems, "detailed-stars", stats.stars, t)
        a2 == StartAnimation(a1, elems, "detailed-forks", stats.forks, t)
        a3 == StartAnimation(a2, elems, "detailed-watchers", stats.watchers, t)
        w1 == WriteFormatted(r2, elems, "detailed-stars", stats.stars)
        w2 == WriteFormatted(w1, elems, "detailed-forks", stats.forks)
        w3 == WriteFormatted(w2, elems, "detailed-watchers", stats.watchers)
        r3 == IF animated THEN a3 ELSE w3
    IN  IF stats.k \in {"null", "undef"} THEN r0
        ELSE WriteLiteral(r3, elems, "detailed-issues", stats.openIssues)

\* One call of the animate callback at frame time t.  `again` tells whether it
\* rescheduled itself.  The eased value is sampled at quarters of the duration,
\* where 1 - (1 - p)^4 = (256 - k^4) / 256 with k = 4 * (1 - p).
QuarterMs == AnimDuration \div 4
Pow4(k) == k * k * k * k
CurrentValue(target, elapsed) ==
    LET k == (AnimDuration - elapsed) \div QuarterMs
    IN  IF ToNumber(target).t # "num" THEN NaN
        ELSE IF elapsed >= AnimDuration THEN Num(ToNumber(target).v)
        ELSE Num((ToNumber(target).v * (256 - Pow4(k))) \div 256)

\* A callback that requests itself again whatever time has passed.
animate_Forever(dom, a, t) ==
    [dom |-> [dom EXCEPT ![a.slot] =
                  formatNumber(CurrentValue(a.target, t - a.start)).text],
     again |-> TRUE]

animate(dom, a, t) ==
    LET elapsed == t - a.start
        first == formatNumber(CurrentValue(a.target, elapsed)).text
        d1 == [dom EXCEPT ![a.slot] = first]
    IN  IF elapsed < AnimDuration THEN [dom |-> d1, again |-> TRUE]
        ELSE IF formatNumber(a.target).threw THEN [dom |-> d1, again |-> FALSE]
        ELSE [dom |-> [d1 EXCEPT ![a.slot] = formatNumber(a.target).text],
              again |-> FALSE]

\* All callbacks of one frame, in the order they were requested.
RECURSIVE RunFrame(_, _, _)
RunFrame(dom, anims, t) ==
    IF anims = <<>> THEN [dom |-> dom, anims |-> <<>>]
    ELSE LET one == animate(dom, Head(anims), t)
             rest == RunFrame(one.dom, Tail(anims), t)
         IN  [dom |-> rest.dom,
              anims |-> IF one.again THEN <<Head(anims)>> \o rest.anims
                        ELSE rest.anims]

\* ------------------------------------------------------------ inputs
\* Date.now() when the first page loads.
T0 == 100000000

\* How far the clock moves between two events.
TickSteps == {CACHE_DURATION - 1, CACHE_DURATION}

\* How far a display-refresh frame lies after the previous one.
FrameSteps == {0, 2 * QuarterMs, AnimDuration}

\* Which display slots a page has, and which detailed slots the viewport shows.
Layouts == {Slots, {}}
Views == {{}, {"detailed-stars"}, {"detailed-forks"}}

\* Contents of the stats key left by earlier sessions or written by others:
\* every kind of text, every data shape under a fresh timestamp, and every
\* timestamp shape over well-formed data.
GoodData == JData("obj", JNum(12345), JNum(1050), JNum(999), JNum(1500))
StoredTimestamps ==
    {JMissing, JStr, JNull, JNum(T0), JNum(T0 + 1 - CACHE_DURATION),
     JNum(T0 - CACHE_DURATION), JNum(T0 + 5)}
StoredData ==
    {JDataMissing, JDataNull, JDataPrim, GoodData,
     JData("obj", JNum(7), JNum(3), JMissing, JNum(1)),
     JData("obj", JNum(7), JMissing, JNum(2), JNull)}
InitialTexts ==
    {Absent, EmptyText, Garbage, NullText, PrimText}
    \cup {RecordText(JNum(T0), d) : d \in StoredData}
    \cup {RecordText(ts, GoodData) : ts \in StoredTimestamps}

\* The keys localStorage can hold: the stats key, another key under the 'die_'
\* prefix, and a key of another application on the same origin.
LegacyKey == "die_legacy_stats"
ForeignKey == "theme"
Keys == {CACHE_KEY, LegacyKey, ForeignKey}

\* key.startsWith('die_')
StartsWithDie(key) == key \in {CACHE_KEY, LegacyKey}

\* Object.keys(localStorage): the keys the store holds, in an order that is
\* left to the browser.
PresentKeys(store) == {k \in Keys : store[k].k # "absent"}
KeyOrders(store) ==
    {o \in [1..Cardinality(PresentKeys(store)) -> PresentKeys(store)] :
        \A k \in PresentKeys(store) : \E j \in DOMAIN o : o[j] = k}

\* Records by age at the first page load: 25 hours, exactly 24 hours, fresh.
DayOld == RecordText(JNum(T0 - MaxCacheAge), GoodData)
Stale == RecordText(JNum(T0 - MaxCacheAge - 60 * 60 * 1000), GoodData)
Fresh == RecordText(JNum(T0), GoodData)

\* Storage with only the stats key populated.
StatsOnly == {f \in [Keys -> InitialTexts \cup {Absent}] :
                 \A k \in Keys \ {CACHE_KEY} : f[k] = Absent}

\* Storage with all three keys populated.
SweepStatsTexts == {Stale, Fresh}
SweepLegacyTexts == {Garbage, PrimText, Stale, DayOld}
SweepForeignTexts == {Stale}
Crowded == {f \in [Keys -> SweepStatsTexts \cup SweepLegacyTexts] :
               /\ f[CACHE_KEY] \in SweepStatsTexts
               /\ f[LegacyKey] \in SweepLegacyTexts
               /\ f[ForeignKey] \in SweepForeignTexts}

\* What response.json() resolves to: null, a non-object, or an object whose
\* four members are read (an absent member reads as undefined).
Body(k, a, b, c, d) ==
    [k |-> k, stargazers_count |-> a, forks_count |-> b,
     subscribers_count |-> c, open_issues_count |-> d]
BodyNull == Body("null", Undef, Undef, Undef, Undef)
BodyPrim == Body("prim", Undef, Undef, Undef, Undef)
NoBody == Body("none", Undef, Undef, Undef, Undef)
Bodies ==
    {BodyNull, BodyPrim,
     Body("obj", Num(500), Num(20), Num(5), Num(2)),
     Body("obj", Num(0), Num(1000), Num(999), Num(0)),
     Body("obj", Num(500), Num(20), Undef, Num(2)),
     Body("obj", Num(500), Num(20), Num(5), Undef),
     Body("obj", Num(500), Null, Num(5), Num(2)),
     Body("obj", Str, Num(20), Num(5), Num(2)),
     Body("obj", Num(0 - 1), Num(20), Num(5), Num(2))}

\* How the fetch promise settles, and how response.json() settles.
FetchOutcomes == {"rejected", "status500", "ok"}
JsonOutcomes == {"syntaxError", "parsed"}

\* ------------------------------------------------------------ state
VARIABLES
    now,        \* Date.now()
    ticks,      \* clock advances so far
    storage,    \* localStorage: key -> text
    loads,      \* page loads so far
    elements,   \* the display slots the site's page has
    running,    \* the pipelines whose synchronous segment is executing (at most one)
    dom,        \* textContent of the page's slots
    anims,      \* the page's pending animate callbacks
    ptime,      \* the page's performance.now()
    inView,     \* the detailed slots inside the viewport
    pc,         \* where each pipeline stands
    stats,      \* this.stats
    cached,     \* loadStats' local `cached`
    data,       \* fetchFromAPI's local `data`
    gets,       \* GET requests each pipeline of the page has issued
    error,      \* what fetchFromAPI's catch caught
    readLog,    \* what getCachedStats read, and when
    atFetch,    \* the text under the stats key when the GET was issued
    wrote,      \* the text each pipeline's cacheStats stored
    rendered,   \* the snapshot of each pipeline's last completed updateDOM
    netLog,     \* the session's loads and fetches
    sweepLog,   \* the latest housekeeping sweep: storage before and after it
    debug,      \* CONFIG.DEBUG
    refreshes,  \* calls of window.DIE.refreshStats()
    pageYOffset,  \* window.pageYOffset
    timeout,      \* the debounce closure's pending timer
    navClock,     \* milliseconds since the navbar was constructed
    scrolled,     \* NavbarScroll.scrolled
    navStyle,     \* navbar.style: background and boxShadow
    styleWrites,  \* how often updateNavbar has written the styles
    lastScrollAt, \* when the latest scroll event arrived
    navPc,        \* whether NavbarScroll has been constructed
    handled,      \* the position the debounced handler last ran with
    fmtIn,      \* the argument handed to formatNumber
    fmtOut      \* what formatNumber returned for it

clockVars == <<now, ticks>>
pageVars == <<dom, anims, ptime, inView>>
pipeVars == <<pc, stats, cached, data, gets, error>>
histVars == <<readLog, atFetch, wrote, rendered, netLog, sweepLog>>
debugVars == <<debug, refreshes>>
navVars == <<pageYOffset, timeout, navClock, scrolled, navStyle, styleWrites,
             lastScrollAt, navPc, handled>>
fmtVars == <<fmtIn, fmtOut>>
sideVars == <<debugVars, navVars, fmtVars>>
statsVars == <<clockVars, storage, loads, elements, running, pageVars, pipeVars,
               histVars>>
vars == <<statsVars, sideVars>>

NoRecord == Text("none", JMissing, JDataMissing)
NoRead == [raw |-> NoRecord, at |-> 0]

\* The session's history: GETs issued, when the latest load began, when the
\* first fetch ended (-1 while none has), whether it stored a record, how
\* many GETs had been issued by then, and the last snapshot cacheStats stored
\* with the text it stored it as and the time it did.
NetLog(total, loadAt, doneAt, stored, getsThen, snapshot, text, t) ==
    [gets |-> total, loadAt |-> loadAt, firstDoneAt |-> doneAt,
     firstStored |-> stored, getsAtDone |-> getsThen,
     written |-> snapshot, writtenAs |-> text, writtenAt |-> t]
FetchEnded(log, t, stored) ==
    IF log.firstDoneAt >= 0 THEN log
    ELSE [log EXCEPT !.firstDoneAt = t, !.firstStored = stored,
                     !.getsAtDone = log.gets]
Stored(log, snapshot, text, t) ==
    [log EXCEPT !.written = snapshot, !.writtenAs = text, !.writtenAt = t]

FreshDom == [s \in Slots |-> InitText]

\* Nothing has been swept yet.
NoSweep(store) ==
    [n |-> 0, at |-> 0, before |-> store, after |-> store, raised |-> FALSE]

\* The timer of the debounce closure: none pending, or one due at a time.
NoTimeout == [armed |-> FALSE, due |-> 0]
Timeout(t) == [armed |-> TRUE, due |-> t]

\* navbar.style as the stylesheet leaves it, and as updateNavbar sets it.
PlainStyle == [background |-> "", boxShadow |-> ""]
DarkStyle == [background |-> "rgba(10, 10, 10, 0.9)",
              boxShadow |-> "0 8px 32px rgba(0, 0, 0, 0.4)"]

NoResult == [threw |-> FALSE, text |-> [k |-> "none", v |-> 0]]

\* The navbar before the page's script has run.
NavIdle ==
    /\ pageYOffset = 0
    /\ timeout = NoTimeout
    /\ navClock = 0
    /\ scrolled = FALSE
    /\ navStyle = PlainStyle
    /\ styleWrites = 0
    /\ lastScrollAt = 0 - 1
    /\ navPc = "unloaded"
    /\ handled = 0 - 1

\* formatNumber not called.
FormatIdle ==
    /\ fmtIn = 0
    /\ fmtOut = NoResult

\* The statistics pipeline before the first page load.
PipelineIdle ==
    /\ now = T0
    /\ ticks = 0
    /\ loads = 0
    /\ running = {}
    /\ dom = FreshDom
    /\ anims = <<>>
    /\ ptime = 0
    /\ inView = {}
    /\ pc = [i \in Inst |-> "unborn"]
    /\ stats = [i \in Inst |-> NullStats]
    /\ cached = [i \in Inst |-> NoRecord]
    /\ data = [i \in Inst |-> NoBody]
    /\ gets = [i \in Inst |-> 0]
    /\ error = [i \in Inst |-> "none"]
    /\ readLog = [i \in Inst |-> NoRead]
    /\ atFetch = [i \in Inst |-> NoRecord]
    /\ wrote = [i \in Inst |-> Absent]
    /\ rendered = [i \in Inst |-> NullStats]
    /\ netLog = NetLog(0, 0, 0 - 1, FALSE, 0, NullStats, NoRecord, 0)
    /\ sweepLog = NoSweep(storage)
    /\ refreshes = 0

Init ==
    /\ storage \in StatsOnly
    /\ elements \in Layouts
    /\ debug = FALSE
    /\ PipelineIdle
    /\ NavIdle
    /\ FormatIdle

\* ------------------------------------------------------------ the pipeline
\* GitHubStats.getCachedStats on the text `raw` at time t: what it returns and
\* whether it removes the key.  An absent key and the empty string are falsy;
\* a text JSON.parse rejects, and the text null (whose .timestamp throws), end
\* in the catch; anything else is compared by age.
CacheMiss == [ret |-> NoRecord, remove |-> FALSE]

\* A reader that removes whatever it cannot parse.
getCachedStats_EvictsGarbage(raw, t) ==
    CASE raw.k \in {"absent", "empty"} -> CacheMiss
      [] raw.k \in {"garbage", "null"} -> [ret |-> NoRecord, remove |-> TRUE]
      [] OTHER ->
           IF LessThan(Minus(t, ParseValue(raw.ts)), CACHE_DURATION)
           THEN [ret |-> raw, remove |-> FALSE]
           ELSE [ret |-> NoRecord, remove |-> TRUE]

\* A reader that ignores an expired record without removing it.
getCachedStats_KeepExpired(raw, t) ==
    CASE raw.k \in {"absent", "empty"} -> CacheMiss
      [] raw.k \in {"garbage", "null"} -> CacheMiss
      [] OTHER ->
           IF LessThan(Minus(t, ParseValue(raw.ts)), CACHE_DURATION)
           THEN [ret |-> raw, remove |-> FALSE]
           ELSE CacheMiss

getCachedStats(raw, t) ==
    CASE raw.k \in {"absent", "empty"} -> CacheMiss
      [] raw.k \in {"garbage", "null"} -> CacheMiss
      [] OTHER ->
           IF LessThan(Minus(t, ParseValue(raw.ts)), CACHE_DURATION)
           THEN [ret |-> raw, remove |-> FALSE]
           ELSE [ret |-> NoRecord, remove |-> TRUE]

\* A writer that leaves the timestamp out of the record.
cacheStats_NoTimestamp(store, s, t, quotaExceeded) ==
    IF quotaExceeded THEN store
    ELSE [store EXCEPT ![CACHE_KEY] = RecordText(JMissing, StringifyData(s))]

\* GitHubStats.cacheStats: setItem may throw (quota), which the catch absorbs.
cacheStats(store, s, t, quotaExceeded) ==
    IF quotaExceeded THEN store
    ELSE [store EXCEPT ![CACHE_KEY] = StringifyRecord(s, t)]

\* A mapping that reads the watchers from watchers_count's neighbour, the
\* fork count.
Normalize_WrongField(b) ==
    Obj(b.stargazers_count, b.forks_count, b.forks_count, b.open_issues_count)

\* The object literal of fetchFromAPI.
Normalize(b) ==
    Obj(b.stargazers_count, b.forks_count, b.subscribers_count, b.open_issues_count)

Truthy(s) == s.k \notin {"null", "undef"}

\* One key of StorageManager.clearOldCache's forEach: a key outside the prefix,
\* an absent key and the empty string are passed over; a text JSON.parse rejects,
\* and the text null (whose .timestamp throws), throw; anything else is removed
\* when its age exceeds 24 hours.
SweepOne(store, key, t) ==
    CASE ~StartsWithDie(key) -> [store |-> store, threw |-> FALSE]
      [] store[key].k \in {"absent", "empty"} -> [store |-> store, threw |-> FALSE]
      [] store[key].k \in {"garbage", "null"} -> [store |-> store, threw |-> TRUE]
      [] OTHER ->
           IF GreaterThan(Minus(t, ParseValue(store[key].ts)), MaxCacheAge)
           THEN [store |-> [store EXCEPT ![key] = Absent], threw |-> FALSE]
           ELSE [store |-> store, threw |-> FALSE]

\* keys.forEach(...): the first throw ends the loop.
RECURSIVE SweepKeys(_, _, _)
SweepKeys(store, order, t) ==
    IF order = <<>> THEN [store |-> store, threw |-> FALSE]
    ELSE LET one == SweepOne(store, Head(order), t)
         IN  IF one.threw THEN one ELSE SweepKeys(one.store, Tail(order), t)

\* A sweep whose loop is not wrapped in try/catch.
clearOldCache_NoCatch(store, order, t) ==
    [store |-> SweepKeys(store, order, t).store,
     raised |-> SweepKeys(store, order, t).threw]

\* StorageManager.clearOldCache: the try/catch around the loop absorbs the throw.
clearOldCache(store, order, t) ==
    [store |-> SweepKeys(store, order, t).store, raised |-> FALSE]

\* DOMContentLoaded in a fresh document (a visit or a reload; what the previous
\* document had pending is gone): StorageManager.clearOldCache() runs first,
\* then new GitHubStats() sets this.stats = null and enters init() ->
\* loadStats().  An error raised by the sweep would end the handler there.
PageLoad ==
    /\ running = {}
    /\ loads < MaxLoads
    /\ loads' = loads + 1
    /\ \E order \in KeyOrders(storage) :
          LET r == clearOldCache(storage, order, now)
          IN  /\ storage' = r.store
              /\ sweepLog' = [n |-> sweepLog.n + 1, at |-> now, before |-> storage,
                              after |-> r.store, raised |-> r.raised]
              /\ pc' = [i \in Inst |-> IF i = 1 /\ ~r.raised THEN "loadStats"
                                       ELSE "unborn"]
              /\ running' = IF r.raised THEN {} ELSE {1}
    /\ dom' = FreshDom
    /\ anims' = <<>>
    /\ ptime' = 0
    /\ \E v \in Views : inView' = v
    /\ stats' = [i \in Inst |-> NullStats]
    /\ cached' = [i \in Inst |-> NoRecord]
    /\ data' = [i \in Inst |-> NoBody]
    /\ gets' = [i \in Inst |-> 0]
    /\ error' = [i \in Inst |-> "none"]
    /\ readLog' = [i \in Inst |-> NoRead]
    /\ atFetch' = [i \in Inst |-> NoRecord]
    /\ wrote' = [i \in Inst |-> Absent]
    /\ rendered' = [i \in Inst |-> NullStats]
    /\ netLog' = [netLog EXCEPT !.loadAt = now]
    /\ UNCHANGED <<clockVars, elements>>
    /\ UNCHANGED sideVars

\* loadStats: const cached = this.getCachedStats()
GetCachedStats(i) ==
    /\ running = {i}
    /\ pc[i] = "loadStats"
    /\ LET r == getCachedStats(storage[CACHE_KEY], now)
       IN  /\ cached' = [cached EXCEPT ![i] = r.ret]
           /\ storage' = IF r.remove THEN [storage EXCEPT ![CACHE_KEY] = Absent]
                         ELSE storage
    /\ readLog' = [readLog EXCEPT ![i] = [raw |-> storage[CACHE_KEY], at |-> now]]
    /\ pc' = [pc EXCEPT ![i] = "cached"]
    /\ UNCHANGED <<clockVars, loads, elements, running, pageVars, stats, data,
                   gets, error, atFetch, wrote, rendered, netLog, sweepLog>>
    /\ UNCHANGED sideVars

\* loadStats, if (cached): this.stats = cached.data; this.updateDOM().  Nothing
\* catches what updateDOM throws here: the promise of loadStats rejects.
LoadFromCache(i) ==
    /\ running = {i}
    /\ pc[i] = "cached"
    /\ cached[i] # NoRecord
    /\ LET s == ParseData(cached[i].data)
           r == updateDOM(s, dom, anims, elements, inView, ptime)
       IN  /\ stats' = [stats EXCEPT ![i] = s]
           /\ dom' = r.dom
           /\ anims' = r.anims
           /\ pc' = [pc EXCEPT ![i] = IF r.threw THEN "rejected" ELSE "done"]
           /\ rendered' = IF Truthy(s) /\ ~r.threw
                          THEN [rendered EXCEPT ![i] = s] ELSE rendered
    /\ running' = {}
    /\ UNCHANGED <<clockVars, storage, loads, elements, ptime, inView, cached,
                   data, gets, error, readLog, atFetch, wrote, netLog,
                   sweepLog>>
    /\ UNCHANGED sideVars

\* loadStats, else: fetchFromAPI() up to `await fetch(url)`.
StartFetch(i) ==
    /\ running = {i}
    /\ pc[i] = "cached"
    /\ cached[i] = NoRecord
    /\ gets' = [gets EXCEPT ![i] = @ + 1]
    /\ netLog' = [netLog EXCEPT !.gets = @ + 1]
    /\ atFetch' = [atFetch EXCEPT ![i] = storage[CACHE_KEY]]
    /\ pc' = [pc EXCEPT ![i] = "awaitFetch"]
    /\ running' = {}
    /\ UNCHANGED <<clockVars, storage, loads, elements, pageVars, stats, cached,
                   data, error, readLog, wrote, rendered, sweepLog>>
    /\ UNCHANGED sideVars

\* The fetch promise settles: a rejection and a response that is not ok both
\* end in the catch; an ok response goes on to `await response.json()`.
FetchSettles(i) ==
    /\ running = {}
    /\ pc[i] = "awaitFetch"
    /\ \E outcome \in FetchOutcomes :
          IF outcome = "ok"
          THEN /\ pc' = [pc EXCEPT ![i] = "awaitJson"]
               /\ running' = {}
               /\ UNCHANGED <<error, netLog>>
          ELSE /\ pc' = [pc EXCEPT ![i] = "catch"]
               /\ error' = [error EXCEPT ![i] = outcome]
               /\ running' = {i}
               /\ netLog' = FetchEnded(netLog, now, FALSE)
    /\ UNCHANGED <<clockVars, storage, loads, elements, pageVars, stats, cached,
                   data, gets, readLog, atFetch, wrote, rendered, sweepLog>>
    /\ UNCHANGED sideVars

\* response.json() settles; on a parsed body the four members are read into
\* this.stats (reading a member of null throws).
JsonSettles(i) ==
    /\ running = {}
    /\ pc[i] = "awaitJson"
    /\ running' = {i}
    /\ \E outcome \in JsonOutcomes :
          IF outcome = "syntaxError"
          THEN /\ pc' = [pc EXCEPT ![i] = "catch"]
               /\ error' = [error EXCEPT ![i] = outcome]
               /\ netLog' = FetchEnded(netLog, now, FALSE)
               /\ UNCHANGED <<data, stats>>
          ELSE \E b \in Bodies :
                  /\ data' = [data EXCEPT ![i] = b]
                  /\ IF b.k = "null"
                     THEN /\ pc' = [pc EXCEPT ![i] = "catch"]
                          /\ error' = [error EXCEPT ![i] = "typeError"]
                          /\ netLog' = FetchEnded(netLog, now, FALSE)
                          /\ UNCHANGED stats
                     ELSE /\ pc' = [pc EXCEPT ![i] = "cacheStats"]
                          /\ stats' = [stats EXCEPT ![i] = Normalize(b)]
                          /\ UNCHANGED <<error, netLog>>
    /\ UNCHANGED <<clockVars, storage, loads, elements, pageVars, cached, gets,
                   readLog, atFetch, wrote, rendered, sweepLog>>
    /\ UNCHANGED sideVars

\* fetchFromAPI: this.cacheStats(this.stats)
CacheStats(i) ==
    /\ running = {i}
    /\ pc[i] = "cacheStats"
    /\ \E quotaExceeded \in BOOLEAN :
          /\ storage' = cacheStats(storage, stats[i], now, quotaExceeded)
          /\ wrote' = IF quotaExceeded THEN wrote
                      ELSE [wrote EXCEPT ![i] = StringifyRecord(stats[i], now)]
          /\ netLog' = IF quotaExceeded THEN FetchEnded(netLog, now, FALSE)
                        ELSE Stored(FetchEnded(netLog, now, TRUE), stats[i],
                                    StringifyRecord(stats[i], now), now)
    /\ pc' = [pc EXCEPT ![i] = "updateDOM"]
    /\ UNCHANGED <<clockVars, loads, elements, running, pageVars, stats, cached,
                   data, gets, error, readLog, atFetch, rendered, sweepLog>>
    /\ UNCHANGED sideVars

\* fetchFromAPI: this.updateDOM(), inside the try.
UpdateFromResponse(i) ==
    /\ running = {i}
    /\ pc[i] = "updateDOM"
    /\ LET r == updateDOM(stats[i], dom, anims, elements, inView, ptime)
       IN  /\ dom' = r.dom
           /\ anims' = r.anims
           /\ pc' = [pc EXCEPT ![i] = IF r.threw THEN "catch" ELSE "done"]
           /\ error' = IF r.threw THEN [error EXCEPT ![i] = "typeError"]
                       ELSE error
           /\ running' = IF r.threw THEN {i} ELSE {}
           /\ rendered' = IF r.threw THEN rendered
                          ELSE [rendered EXCEPT ![i] = stats[i]]
    /\ UNCHANGED <<clockVars, storage, loads, elements, ptime, inView, stats,
                   cached, data, gets, readLog, atFetch, wrote, netLog,
                   sweepLog>>
    /\ UNCHANGED sideVars

\* fetchFromAPI's catch: this.showFallbackStats()
ShowFallbackStats(i) ==
    /\ running = {i}
    /\ pc[i] = "catch"
    /\ LET r == updateDOM(FallbackStats, dom, anims, elements, inView, ptime)
       IN  /\ stats' = [stats EXCEPT ![i] = FallbackStats]
           /\ dom' = r.dom
           /\ anims' = r.anims
           /\ pc' = [pc EXCEPT ![i] = IF r.threw THEN "rejected" ELSE "done"]
           /\ rendered' = IF r.threw THEN rendered
                          ELSE [rendered EXCEPT ![i] = FallbackStats]
    /\ running' = {}
    /\ UNCHANGED <<clockVars, storage, loads, elements, ptime, inView, cached,
                   data, gets, error, readLog, atFetch, wrote, netLog,
                   sweepLog>>
    /\ UNCHANGED sideVars

\* ------------------------------------------------------------ environment
\* Time passes between events.
Tick ==
    /\ running = {}
    /\ ticks < MaxTicks
    /\ \E d \in TickSteps : now' = now + d
    /\ ticks' = ticks + 1
    /\ UNCHANGED <<storage, loads, elements, running, pageVars, pipeVars,
                   histVars>>
    /\ UNCHANGED sideVars

\* A display-refresh frame, d ms after the previous one, runs the requested
\* animate callbacks.
FrameAt(d) ==
    /\ running = {}
    /\ anims # <<>>
    /\ LET r == RunFrame(dom, anims, ptime + d)
       IN  /\ ptime' = ptime + d
           /\ dom' = r.dom
           /\ anims' = r.anims
    /\ UNCHANGED <<clockVars, storage, loads, elements, running, inView,
                   pipeVars, histVars>>
    /\ UNCHANGED sideVars

Frame == \E d \in FrameSteps : FrameAt(d)

\* The user scrolls: other detailed slots come into view.
Scroll ==
    /\ running = {}
    /\ loads > 0
    /\ \E v \in Views \ {inView} : inView' = v
    /\ UNCHANGED <<clockVars, storage, loads, elements, running, dom, anims,
                   ptime, pipeVars, histVars>>
    /\ UNCHANGED sideVars

Next ==
    \/ PageLoad
    \/ \E i \in Inst : GetCachedStats(i)
    \/ \E i \in Inst : LoadFromCache(i)
    \/ \E i \in Inst : StartFetch(i)
    \/ \E i \in Inst : FetchSettles(i)
    \/ \E i \in Inst : JsonSettles(i)
    \/ \E i \in Inst : CacheStats(i)
    \/ \E i \in Inst : UpdateFromResponse(i)
    \/ \E i \in Inst : ShowFallbackStats(i)
    \/ Frame
    \/ Scroll
    \/ Tick

Spec == Init /\ [][Next]_vars

\* The event loop runs a synchronous segment to its end, and the display keeps
\* refreshing, each frame later than the one before.
Segment ==
    \E i \in Inst :
        \/ GetCachedStats(i) \/ LoadFromCache(i) \/ StartFetch(i)
        \/ CacheStats(i) \/ UpdateFromResponse(i) \/ ShowFallbackStats(i)
LaterFrame == \E d \in FrameSteps \ {0} : FrameAt(d)

\* A first visit (nothing stored) to the page with all slots.
LiveInit ==
    /\ storage = [k \in Keys |-> Absent]
    /\ elements = Slots
    /\ debug = FALSE
    /\ PipelineIdle
    /\ NavIdle
    /\ FormatIdle

\* Page loads, the pipeline and the frames; the clock and the viewport rest.
LiveNext ==
    \/ PageLoad
    \/ \E i \in Inst : GetCachedStats(i)
    \/ \E i \in Inst : LoadFromCache(i)
    \/ \E i \in Inst : StartFetch(i)
    \/ \E i \in Inst : FetchSettles(i)
    \/ \E i \in Inst : JsonSettles(i)
    \/ \E i \in Inst : CacheStats(i)
    \/ \E i \in Inst : UpdateFromResponse(i)
    \/ \E i \in Inst : ShowFallbackStats(i)
    \/ Frame

LiveSpec ==
    LiveInit /\ [][LiveNext]_vars /\ WF_vars(Segment) /\ WF_vars(LaterFrame)

\* The same steps over a storage in which other keys are populated too.
SweepInit ==
    /\ storage \in Crowded
    /\ elements = Slots
    /\ debug = FALSE
    /\ PipelineIdle
    /\ NavIdle
    /\ FormatIdle

SweepSpec == SweepInit /\ [][Next]_vars

\* ------------------------------------------------------------ debug API
\* window.DIE.refreshStats(), which exists when CONFIG.DEBUG is set:
\* removeItem(CACHE_KEY); new GitHubStats(), whose constructor runs init() ->
\* loadStats() -> getCachedStats() (a miss on the key just removed) ->
\* fetchFromAPI() up to its `await fetch(url)`; then stats.fetchFromAPI() again,
\* up to its own `await fetch(url)`.  Pipelines a and a + 1 are these two calls.
\* The console calls it while no other pipeline of the page is under way.
RefreshStats ==
    /\ debug
    /\ running = {}
    /\ loads > 0
    /\ \A i \in Inst : pc[i] \in {"unborn", "done", "rejected"}
    /\ \E a \in Inst \ {1} :
          /\ a + 1 \in Inst
          /\ \A i \in Inst : pc[i] = "unborn" <=> i >= a
          /\ LET cleared == [storage EXCEPT ![CACHE_KEY] = Absent]
                 r == getCachedStats(cleared[CACHE_KEY], now)
                 both == {a, a + 1}
                 fetching == IF r.ret = NoRecord THEN both ELSE {a + 1}
             IN  /\ storage' = IF r.remove THEN [cleared EXCEPT ![CACHE_KEY] = Absent]
                               ELSE cleared
                 /\ cached' = [cached EXCEPT ![a] = r.ret]
                 /\ readLog' = [readLog EXCEPT ![a] = [raw |-> cleared[CACHE_KEY],
                                                       at |-> now]]
                 /\ pc' = [i \in Inst |-> IF i \in fetching THEN "awaitFetch"
                                          ELSE IF i = a THEN "cached" ELSE pc[i]]
                 /\ gets' = [i \in Inst |-> IF i \in fetching THEN 1 ELSE gets[i]]
                 /\ atFetch' = [i \in Inst |-> IF i \in fetching THEN cleared[CACHE_KEY]
                                               ELSE atFetch[i]]
                 /\ netLog' = [netLog EXCEPT !.gets = @ + Cardinality(fetching)]
    /\ refreshes' = refreshes + 1
    /\ UNCHANGED <<clockVars, loads, elements, running, pageVars, stats, data,
                   error, wrote, rendered, sweepLog>>
    /\ UNCHANGED <<debug, navVars, fmtVars>>

\* The development build on a page without the statistics slots, visited
\* with a fresh record in the cache.
DebugInit ==
    /\ storage = [k \in Keys |-> IF k = CACHE_KEY THEN Fresh ELSE Absent]
    /\ elements = {}
    /\ debug = TRUE
    /\ PipelineIdle
    /\ NavIdle
    /\ FormatIdle

DebugNext ==
    \/ PageLoad
    \/ \E i \in Inst : GetCachedStats(i)
    \/ \E i \in Inst : LoadFromCache(i)
    \/ \E i \in Inst : StartFetch(i)
    \/ \E i \in Inst : FetchSettles(i)
    \/ \E i \in Inst : JsonSettles(i)
    \/ \E i \in Inst : CacheStats(i)
    \/ \E i \in Inst : UpdateFromResponse(i)
    \/ \E i \in Inst : ShowFallbackStats(i)
    \/ RefreshStats

DebugSpec == DebugInit /\ [][DebugNext]_vars

\* The statistics pipeline of a page that is never loaded.
StatsIdle ==
    /\ storage = [k \in Keys |-> Absent]
    /\ elements = {}
    /\ debug = FALSE
    /\ PipelineIdle

\* ------------------------------------------------------------ navbar
\* window.pageYOffset: at the top, at the threshold, just past it, far down.
ScrollPositions == {0, ScrollThreshold, ScrollThreshold + 1, 120}

\* A handler that darkens the navbar from the threshold itself on.
updateNavbar_AtThreshold(y, flag, style, writes) ==
    IF (y >= ScrollThreshold) # flag
    THEN [scrolled |-> y >= ScrollThreshold,
          style |-> IF y >= ScrollThreshold THEN DarkStyle ELSE PlainStyle,
          writes |-> writes + 1]
    ELSE [scrolled |-> flag, style |-> style, writes |-> writes]

\* NavbarScroll.updateNavbar at scroll position y.
updateNavbar(y, flag, style, writes) ==
    IF (y > ScrollThreshold) # flag
    THEN [scrolled |-> y > ScrollThreshold,
          style |-> IF y > ScrollThreshold THEN DarkStyle ELSE PlainStyle,
          writes |-> writes + 1]
    ELSE [scrolled |-> flag, style |-> style, writes |-> writes]

NavInit ==
    /\ StatsIdle
    /\ FormatIdle
    /\ pageYOffset \in ScrollPositions
    /\ timeout = NoTimeout
    /\ navClock = 0
    /\ scrolled = FALSE
    /\ navStyle = PlainStyle
    /\ styleWrites = 0
    /\ lastScrollAt = 0 - 1
    /\ navPc = "unloaded"
    /\ handled = 0 - 1

\* new NavbarScroll(): this.scrolled = false; init() registers the debounced
\* listener and makes the initial check.
NavbarConstruct ==
    /\ navPc = "unloaded"
    /\ navPc' = "ready"
    /\ LET r == updateNavbar(pageYOffset, FALSE, navStyle, styleWrites)
       IN  /\ scrolled' = r.scrolled
           /\ navStyle' = r.style
           /\ styleWrites' = r.writes
    /\ handled' = pageYOffset
    /\ UNCHANGED <<pageYOffset, timeout, navClock, lastScrollAt>>
    /\ UNCHANGED <<statsVars, debugVars, fmtVars>>

\* A scroll event at a new position: the debounced function clears the pending
\* timer and sets a new one.
ScrollEvent ==
    /\ navPc = "ready"
    /\ navClock + DebounceWait <= MaxNavTime
    /\ \E y \in ScrollPositions \ {pageYOffset} : pageYOffset' = y
    /\ timeout' = Timeout(navClock + DebounceWait)
    /\ lastScrollAt' = navClock
    /\ UNCHANGED <<navClock, scrolled, navStyle, styleWrites, navPc, handled>>
    /\ UNCHANGED <<statsVars, debugVars, fmtVars>>

\* The timer fires, no earlier than it is due: later() runs updateNavbar.
TimerFires ==
    /\ timeout.armed
    /\ navClock >= timeout.due
    /\ timeout' = NoTimeout
    /\ LET r == updateNavbar(pageYOffset, scrolled, navStyle, styleWrites)
       IN  /\ scrolled' = r.scrolled
           /\ navStyle' = r.style
           /\ styleWrites' = r.writes
    /\ handled' = pageYOffset
    /\ UNCHANGED <<pageYOffset, navClock, lastScrollAt, navPc>>
    /\ UNCHANGED <<statsVars, debugVars, fmtVars>>

\* A millisecond passes.
NavTime ==
    /\ navClock < MaxNavTime
    /\ navClock' = navClock + 1
    /\ UNCHANGED <<pageYOffset, timeout, scrolled, navStyle, styleWrites,
                   lastScrollAt, navPc, handled>>
    /\ UNCHANGED <<statsVars, debugVars, fmtVars>>

NavNext ==
    \/ NavbarConstruct
    \/ ScrollEvent
    \/ TimerFires
    \/ NavTime

\* Time passes, and a timer that is due fires.
NavSpec ==
    NavInit /\ [][NavNext]_vars /\ WF_vars(NavTime) /\ WF_vars(TimerFires)

\* ------------------------------------------------------------ formatNumber
\* The integers formatNumber is handed.
FormatInputs == (0..MaxFormatted) \cup {10200, 12345, 99950, 1000000}

FormatInit ==
    /\ StatsIdle
    /\ NavIdle
    /\ fmtIn \in FormatInputs
    /\ fmtOut = NoResult

\* Utils.formatNumber(fmtIn)
FormatNumber ==
    /\ fmtOut = NoResult
    /\ fmtOut' = formatNumber(Num(fmtIn))
    /\ UNCHANGED <<statsVars, debugVars, navVars, fmtIn>>

FormatNext == FormatNumber

FormatSpec == FormatInit /\ [][FormatNext]_vars

\* ------------------------------------------------------------ properties
\* What the specification calls a valid snapshot: an object whose four fields
\* are non-negative integers.
NonNegative(x) == x.t = "num" /\ x.v >= 0
WellFormed(s) ==
    /\ s.k = "obj"
    /\ NonNegative(s.stars) /\ NonNegative(s.forks)
    /\ NonNegative(s.watchers) /\ NonNegative(s.openIssues)
Unset(s) == s.k \in {"null", "undef"}

\* The snapshot a well-formed `data` member denotes.
SnapshotOfData(j) == NumStats(j.stars.v, j.forks.v, j.watchers.v, j.openIssues.v)

Finished(i) == pc[i] \in {"done", "rejected"}

\* C1 (as claimed): whatever the stats key holds and however the network
\* answers, load() never raises to its caller, and when it has finished a
\* snapshot (cached, live or fallback) has been rendered.
C1_LoadAlwaysRenders ==
    \A i \in Inst :
        /\ pc[i] # "rejected"
        /\ pc[i] = "done" => ~Unset(rendered[i])

\* C2: when the fetch rejects or answers with a non-success status, the
\* fallback snapshot {10200, 879, 168, 0} is what is rendered, exactly one GET
\* was issued, and the stats key is as it was when the GET was issued.
C2_FailedFetchShowsFallback ==
    \A i \in Inst :
        (pc[i] = "done" /\ error[i] \in {"rejected", "status500"}) =>
            /\ stats[i] = NumStats(10200, 879, 168, 0)
            /\ rendered[i] = NumStats(10200, 879, 168, 0)
            /\ gets[i] = 1
            /\ wrote[i] = Absent
            /\ storage[CACHE_KEY] = atFetch[i]
            /\ elements = Slots =>
                  /\ dom["github-stars"] = KText(102)
                  /\ dom["github-forks"] = IntText(879)
                  /\ dom["detailed-issues"] = IntText(0)

C2_Witness ==
    /\ pc[1] = "done"
    /\ error[1] = "status500"
    /\ storage[CACHE_KEY] = Garbage
    /\ dom["github-stars"] = KText(102)

\* C3 (as claimed): an ok response whose body lacks one of the four fields, or
\* has one that is not a non-negative integer, ends with the fallback rendered
\* and no cache record written.
C3_ShapeErrorFallsBack ==
    \A i \in Inst :
        (pc[i] = "done" /\ data[i].k # "none" /\ ~WellFormed(Obj(
              data[i].stargazers_count, data[i].forks_count,
              data[i].subscribers_count, data[i].open_issues_count))) =>
            /\ rendered[i] = NumStats(10200, 879, 168, 0)
            /\ wrote[i] = Absent
            /\ storage[CACHE_KEY] = atFetch[i]

\* C4 (as claimed): this.stats is always unset or a well-formed snapshot, and
\* so is the data of every record the provider writes.
C4_SnapshotNeverPartial ==
    \A i \in Inst :
        /\ Unset(stats[i]) \/ WellFormed(stats[i])
        /\ wrote[i] = Absent \/ WellFormed(ParseData(wrote[i].data))

\* C5: a load that finds a non-expired record issues no GET and renders from
\* that record's snapshot and from nothing else; a record holding 12345 stars
\* shows "12.3k" in the hero slot.
C5_WarmCacheNoNetwork ==
    \A i \in Inst :
        (Finished(i) /\ cached[i] # NoRecord) =>
            /\ gets[i] = 0
            /\ error[i] = "none"
            /\ cached[i] = readLog[i].raw
            /\ Unset(rendered[i]) \/ rendered[i] = stats[i]
            /\ WellFormed(ParseData(readLog[i].raw.data)) =>
                  /\ pc[i] = "done"
                  /\ stats[i] = SnapshotOfData(readLog[i].raw.data)
                  /\ rendered[i] = SnapshotOfData(readLog[i].raw.data)
            /\ (readLog[i].raw.data = GoodData /\ elements = Slots) =>
                  dom["github-stars"] = KText(123)

C5_Witness ==
    /\ pc[1] = "done"
    /\ cached[1] # NoRecord
    /\ readLog[1].raw.data = GoodData
    /\ gets[1] = 0
    /\ dom["github-stars"] = KText(123)

\* C6 (as claimed): once the first remote fetch of the session has completed,
\* loads that start less than 30 minutes after it issue no further GET.
C6_NoSecondFetchInWindow ==
    (netLog.firstDoneAt >= 0 /\ netLog.loadAt < netLog.firstDoneAt + 30 * 60 * 1000)
        => netLog.gets = netLog.getsAtDone

\* C6 (amended): once a remote fetch has succeeded and its record has been
\* stored, loads that start less than 30 minutes after it issue no further GET.
C6_NoSecondFetchAfterStoredFetch ==
    (netLog.firstStored /\ netLog.loadAt < netLog.firstDoneAt + 30 * 60 * 1000)
        => netLog.gets = netLog.getsAtDone

C6_Witness ==
    /\ loads = 2
    /\ netLog.firstStored
    /\ netLog.loadAt = netLog.firstDoneAt + 30 * 60 * 1000 - 1
    /\ pc[1] = "done"
    /\ cached[1] = netLog.writtenAs
    /\ netLog.gets = 1

\* The age getCachedStats computed for the record it read.
HasRead(i) == pc[i] \notin {"unborn", "loadStats"}
ReadAge(i) == readLog[i].at - readLog[i].raw.ts.v

\* C7: a record with a numeric timestamp is reused exactly when its age is
\* below 1,800,000 ms; at exactly 1,800,000 ms it is a miss and a GET follows.
C7_StrictExpiryBoundary ==
    \A i \in Inst :
        (HasRead(i) /\ readLog[i].raw.k = "obj" /\ readLog[i].raw.ts.t = "num") =>
            /\ cached[i] # NoRecord <=> ReadAge(i) < 1800000
            /\ (ReadAge(i) < 1800000) => gets[i] = 0
            /\ (ReadAge(i) >= 1800000 /\ pc[i] # "cached") => gets[i] = 1

C7_Witness ==
    /\ HasRead(1)
    /\ readLog[1].raw.k = "obj"
    /\ readLog[1].raw.ts.t = "num"
    /\ ReadAge(1) = 1800000
    /\ cached[1] = NoRecord
    /\ gets[1] = 1

\* The record read was not valid for reuse: its age is not below 30 minutes
\* (a timestamp that is no number has no age below anything).
ReadExpired(i) ==
    /\ readLog[i].raw.k = "obj"
    /\ CASE readLog[i].raw.ts.t = "num" -> ReadAge(i) >= 30 * 60 * 1000
         [] readLog[i].raw.ts.t = "null" -> readLog[i].at >= 30 * 60 * 1000
         [] OTHER -> TRUE

\* C8: when getCachedStats has found the record expired, the key is absent
\* once it has returned, before the GET is issued and until the response.
C8_ExpiredEvictedOnRead ==
    \A i \in Inst :
        (pc[i] \in {"cached", "awaitFetch", "awaitJson"} /\ ReadExpired(i)) =>
            /\ cached[i] = NoRecord
            /\ storage[CACHE_KEY] = Absent
            /\ pc[i] = "cached" => gets[i] = 0

C8_Witness ==
    /\ pc[1] = "cached"
    /\ readLog[1].raw = RecordText(JNum(T0 - 30 * 60 * 1000), GoodData)
    /\ storage[CACHE_KEY] = Absent
    /\ gets[1] = 0

\* The record the claim expects for a parsed body: the four counts under the
\* names stars, forks, watchers and openIssues.
ExpectedSnapshot(b) ==
    Obj(b.stargazers_count, b.forks_count, b.subscribers_count, b.open_issues_count)
ExpectedData(b) ==
    JData("obj", StringifyValue(b.stargazers_count), StringifyValue(b.forks_count),
          StringifyValue(b.subscribers_count), StringifyValue(b.open_issues_count))

\* C9 (as claimed): after a successful fetch, and before render is invoked,
\* the stats key holds the new record (the normalized snapshot, stamped with
\* the write time); render then gets that snapshot.
C9_FetchStoresThenRenders ==
    \A i \in Inst :
        /\ pc[i] = "updateDOM" =>
              /\ storage[CACHE_KEY] = RecordText(JNum(now), ExpectedData(data[i]))
              /\ Unset(rendered[i])
        /\ (pc[i] = "done" /\ error[i] = "none" /\ cached[i] = NoRecord) =>
              rendered[i] = ExpectedSnapshot(data[i])

\* C9 (amended): the same, provided setItem did not throw; when it threw, the
\* key is as it was when the GET was issued, and render is still invoked.
C9_FetchStoresUnlessQuota ==
    \A i \in Inst :
        /\ pc[i] = "updateDOM" =>
              /\ wrote[i] # Absent =>
                    storage[CACHE_KEY] = RecordText(JNum(now), ExpectedData(data[i]))
              /\ wrote[i] = Absent => storage[CACHE_KEY] = atFetch[i]
              /\ Unset(rendered[i])
        /\ (pc[i] = "done" /\ error[i] = "none" /\ cached[i] = NoRecord) =>
              rendered[i] = ExpectedSnapshot(data[i])

C9_Witness ==
    /\ pc[1] = "updateDOM"
    /\ data[1] = Body("obj", Num(500), Num(20), Num(5), Num(2))
    /\ atFetch[1] = Garbage
    /\ storage[CACHE_KEY] = RecordText(JNum(now), JNumData(500, 20, 5, 2))

\* C10: a load that reads the text cacheStats stored for a well-formed
\* snapshot, less than 30 minutes after it was stored, gets that snapshot back
\* field for field.
C10_CacheRoundTrip ==
    \A i \in Inst :
        (/\ pc[i] \notin {"unborn", "loadStats", "cached"}
         /\ WellFormed(netLog.written)
         /\ readLog[i].raw = netLog.writtenAs
         /\ readLog[i].at - netLog.writtenAt < 30 * 60 * 1000) =>
            /\ cached[i] # NoRecord
            /\ stats[i] = netLog.written

C10_Witness ==
    /\ pc[1] = "done"
    /\ netLog.written = NumStats(0, 1000, 999, 0)
    /\ readLog[1].raw = netLog.writtenAs
    /\ readLog[1].at = netLog.writtenAt + 30 * 60 * 1000 - 1
    /\ stats[1] = NumStats(0, 1000, 999, 0)

\* ------------------------------------------------------------ housekeeping
\* A record under the 'die_' prefix whose embedded timestamp lies more than
\* 24 hours before t.
Namespaced(k) == k \in {"die_github_stats", "die_legacy_stats"}
IsRecord(text) == text.k = "obj" /\ text.ts.t = "num"
OlderThanADay(text, t) == IsRecord(text) /\ t - text.ts.v > 24 * 60 * 60 * 1000

\* C11 (as claimed): once the sweep has run, storage holds no key under the
\* 'die_' prefix whose record is more than 24 hours old, whatever else,
\* unparseable values included, is stored.
C11_SweepRemovesEveryStaleKey ==
    sweepLog.n > 0 =>
        \A k \in Keys :
            Namespaced(k) => ~OlderThanADay(sweepLog.after[k], sweepLog.at)

\* C15 (as claimed): every load sweeps exactly once, before the provider's
\* first cache read, so what the provider reads is what the sweep left and is
\* never a stats record more than 24 hours old.
C15_SweepBeforeFirstRead ==
    /\ sweepLog.n = loads
    /\ HasRead(1) =>
          /\ sweepLog.at <= readLog[1].at
          /\ readLog[1].raw = sweepLog.after["die_github_stats"]
          /\ ~OlderThanADay(readLog[1].raw, readLog[1].at)

\* C19: the sweep only deletes.  It leaves every key outside the 'die_'
\* prefix, every record aged 24 hours or less and every value that is no
\* record as they were, writes nothing, and raises nothing: the handler goes
\* on to construct the provider.
C19_SweepOnlyDeletes ==
    sweepLog.n > 0 =>
        /\ ~sweepLog.raised
        /\ pc[1] # "unborn"
        /\ \A k \in Keys :
              /\ sweepLog.after[k] \in {sweepLog.before[k], Absent}
              /\ ~Namespaced(k) => sweepLog.after[k] = sweepLog.before[k]
              /\ ~OlderThanADay(sweepLog.before[k], sweepLog.at)
                    /\ sweepLog.before[k].ts.t # "null"
                        => sweepLog.after[k] = sweepLog.before[k]

C19_Witness ==
    /\ sweepLog.n = 1
    /\ sweepLog.before["die_legacy_stats"] = Garbage
    /\ sweepLog.before["die_github_stats"] = Stale
    /\ sweepLog.after["die_github_stats"] = Absent
    /\ sweepLog.after["die_legacy_stats"] = Garbage
    /\ sweepLog.after["theme"] = Stale
    /\ pc[1] = "loadStats"

\* ------------------------------------------------------------ formatting
\* C12 (as claimed): below 1000 the decimal digits of n; from 1000 on, n / 1000
\* rounded to one decimal place (a half rounding up), followed by k.
C12_FormatRoundsToOneDecimal ==
    fmtOut # NoResult =>
        /\ ~fmtOut.threw
        /\ fmtIn < 1000 => fmtOut.text = IntText(fmtIn)
        /\ fmtIn >= 1000 => fmtOut.text = KText((fmtIn + 50) \div 100)

\* C12 (amended): below 1000 the decimal digits of n; from 1000 on, a value
\* with one decimal that is nearest to n / 1000, followed by k; where n / 1000
\* lies halfway between two such values (n ends in 50) either may result.
\* 10200 gives 10.2k, 999 gives 999, 1000 gives 1.0k.
C12_FormatNearestTenth ==
    fmtOut # NoResult =>
        /\ ~fmtOut.threw
        /\ fmtIn < 1000 => fmtOut.text = IntText(fmtIn)
        /\ fmtIn >= 1000 =>
              /\ fmtOut.text.k = "k"
              /\ fmtOut.text.v * 100 - fmtIn <= 50
              /\ fmtIn - fmtOut.text.v * 100 <= 50
        /\ fmtIn = 10200 => fmtOut.text = KText(102)
        /\ fmtIn = 999 => fmtOut.text = IntText(999)
        /\ fmtIn = 1000 => fmtOut.text = KText(10)

C12_Witness ==
    /\ fmtIn = 1150
    /\ fmtOut = Returned(KText(11))

\* ------------------------------------------------------------ rendering
\* The abbreviated form of a non-negative integer n: its digits below 1000, and
\* from 1000 on a number of tenths of a thousand nearest to n.
IsAbbreviationOf(text, n) ==
    IF n < 1000 THEN text = IntText(n)
    ELSE /\ text.k = "k"
         /\ text.v * 100 - n <= 50
         /\ n - text.v * 100 <= 50

\* C13: after every completed render of a snapshot of non-negative integers,
\* whatever the viewport shows, the hero slots hold the abbreviated stars and
\* forks and the open-issue slot holds openIssues as a literal integer.
C13_HeroAbbreviatedIssuesLiteral ==
    \A i \in Inst :
        (pc[i] = "done" /\ WellFormed(rendered[i]) /\ elements = Slots) =>
            /\ IsAbbreviationOf(dom["github-stars"], rendered[i].stars.v)
            /\ IsAbbreviationOf(dom["github-forks"], rendered[i].forks.v)
            /\ dom["detailed-issues"] = IntText(rendered[i].openIssues.v)

C13_Witness ==
    /\ pc[1] = "done"
    /\ rendered[1] = NumStats(12345, 1050, 999, 1500)
    /\ inView = {"detailed-stars"}
    /\ dom["github-stars"] = KText(123)
    /\ dom["github-forks"] = KText(11)
    /\ dom["detailed-issues"] = IntText(1500)

\* The animations a step has requested for slot s.
Requested(s) ==
    {k \in DOMAIN anims' : k > Len(anims) /\ anims'[k].slot = s}

\* C14 (as claimed): a render animates a detailed slot exactly when that slot
\* itself is inside the viewport, and writes the final value at once
\* otherwise; scrolling later neither starts an animation nor writes a slot.
C14_AnimatedIffSlotVisible ==
    [][/\ (loads' = loads /\ rendered' # rendered /\ elements = Slots) =>
            \A s \in {"detailed-stars", "detailed-forks", "detailed-watchers"} :
                Requested(s) # {} <=> s \in inView
        /\ (loads' = loads /\ inView' # inView) => (anims' = anims /\ dom' = dom)
      ]_vars

\* C16: a frame that comes 1500 ms or more after an animation started is that
\* animation's last (it is not requested again) and leaves the abbreviated
\* target in its slot, whatever animates the other slots; an animation still
\* pending has not seen such a frame; and while frames keep coming every
\* pending animation ends.
C16_AnimationRunsToCompletion ==
    /\ [][ptime' > ptime =>
            \A k \in DOMAIN anims :
                ptime' - anims[k].start >= 1500 =>
                    /\ \A j \in DOMAIN anims' : anims'[j] # anims[k]
                    /\ (/\ NonNegative(anims[k].target)
                        /\ \A j \in DOMAIN anims \ {k} :
                              anims[j].slot # anims[k].slot)
                          => IsAbbreviationOf(dom'[anims[k].slot],
                                              anims[k].target.v)
         ]_vars
    /\ [](\A k \in DOMAIN anims : ptime - anims[k].start < 1500)
    /\ (anims # <<>>) ~> (anims = <<>>)

C16_Witness ==
    /\ anims = <<>>
    /\ ptime >= 1500
    /\ rendered[1] = NumStats(10200, 879, 168, 0)
    /\ dom["detailed-stars"] = KText(102)
    /\ dom["detailed-forks"] = IntText(879)
    /\ dom["detailed-watchers"] = IntText(168)

\* ------------------------------------------------------------ cache read
\* The text under the stats key is no JSON object at all.
NoObject(text) == text.k \in {"absent", "empty", "garbage", "null", "prim"}

\* C17 (as claimed): when the stats key is absent or holds no cache record,
\* getCachedStats raises nothing and returns no record, the load goes on to
\* the GET, and the read leaves the key as it found it.
C17_UnusableReadLeavesStorage ==
    \A i \in Inst :
        (HasRead(i) /\ NoObject(readLog[i].raw)) =>
            /\ cached[i] = NoRecord
            /\ pc[i] # "rejected"
            /\ pc[i] # "cached" => gets[i] = 1
            /\ pc[i] = "cached" => storage["die_github_stats"] = readLog[i].raw

\* C17 (amended): the same, except that the read leaves the key as it found
\* it only when the key is absent, empty, not JSON, or the JSON text null; any
\* other JSON value that is no usable record (a primitive, an object without
\* a numeric timestamp) is removed by the read, like an expired record.
C17_UnusableReadFallsThrough ==
    \A i \in Inst :
        (HasRead(i) /\ (NoObject(readLog[i].raw) \/ readLog[i].raw.ts.t # "num")) =>
            /\ cached[i] = NoRecord
            /\ pc[i] # "rejected"
            /\ pc[i] # "cached" => gets[i] = 1
            /\ pc[i] = "cached" =>
                  storage["die_github_stats"] =
                      IF readLog[i].raw.k \in {"absent", "empty", "garbage", "null"}
                      THEN readLog[i].raw ELSE Absent

C17_Witness ==
    /\ pc[1] = "cached"
    /\ readLog[1].raw = PrimText
    /\ cached[1] = NoRecord
    /\ storage["die_github_stats"] = Absent

\* ------------------------------------------------------------ concurrency
\* The pipelines that have begun and not finished.
InFlight == {i \in Inst : pc[i] \notin {"unborn", "done", "rejected"}}

\* C18 (as claimed): at most one fetch pipeline is in flight at any time, also
\* when refreshStats is called, and every call of refreshStats issues exactly
\* one GET (a page load issues at most one).
C18_OnePipelineOneGet ==
    /\ Cardinality(InFlight) <= 1
    /\ netLog.gets <= loads + refreshes

\* ------------------------------------------------------------ navbar state
\* C20: the debounced handler runs no earlier than 10 ms after the latest
\* scroll event, and runs once such a pause has come; whenever no timer is
\* pending it has run with the latest position, the flag equals
\* (pageYOffset > 50); the dark background and the shadow are set exactly
\* while the flag is true; and the styles are written only when the flag
\* changes.
C20_NavbarFollowsScroll ==
    /\ [](navPc = "ready" =>
            /\ navStyle = IF scrolled THEN DarkStyle ELSE PlainStyle
            /\ ~timeout.armed =>
                  /\ handled = pageYOffset
                  /\ scrolled = (pageYOffset > 50))
    /\ [][/\ (timeout.armed /\ ~timeout'.armed) => navClock >= lastScrollAt + 10
          /\ (styleWrites' # styleWrites \/ navStyle' # navStyle) =>
                (scrolled' # scrolled /\ styleWrites' = styleWrites + 1)
         ]_vars
    /\ timeout.armed ~> ~timeout.armed

C20_Witness ==
    /\ navPc = "ready"
    /\ lastScrollAt = 0
    /\ navClock = 10
    /\ ~timeout.armed
    /\ pageYOffset = 51
    /\ handled = 51
    /\ scrolled
    /\ navStyle = DarkStyle
    /\ styleWrites = 1

====
